---- MODULE Spec2Model ----
(***************************************************************************)
(* The upload / process / result workflow of the SkyCodecPage component    *)
(* (frontend/src/pages/SkyCodecPage.js).                                   *)
(*                                                                         *)
(* The component's React state is the model's state.  JavaScript runs      *)
(* every handler and every promise continuation to completion, so one      *)
(* action is one handler run up to its first await, or one continuation    *)
(* after an await.  All stage timers use the same delay (800 ms), so they  *)
(* fire in the order in which they were set: `timers` is a FIFO queue.     *)
(* Network responses arrive in any order.                                  *)
(*                                                                         *)
(* Browsing for a file takes two tasks of the event loop: the click on the *)
(* upload zone, which opens the file chooser, and the change event of the  *)
(* file input once the user has chosen.  Timers, responses and other       *)
(* events are handled in between; the code does nothing to hold them back  *)
(* while the chooser is showing.                                           *)
(***************************************************************************)
EXTENDS Integers, Sequences, FiniteSets

VARIABLES
    isDragging,         \* useState(false), line 44
    isProcessing,       \* useState(false), line 45
    currentStage,       \* useState(0), line 46
    compressionResult,  \* useState(null), line 47: <<>> is null, <<d>> is response data d
    selectedFile,       \* useState(null), line 48: <<>> is null, <<f>> is the File f
    timers,             \* processFile invocations waiting in setTimeout(resolve, 800),
                        \* oldest timer first: [file, i] with i the loop variable
    requests,           \* processFile invocations waiting for POST /compress: the
                        \* uploaded files, in the order they were posted
    downloads,          \* pending GET /download/{file_id} requests, per file_id
    chooserOpen,        \* the file chooser opened by fileInputRef.current.click()
                        \* (line 373) is showing and has not been answered
    toast,              \* the notification emitted by the last step ("none" if none)
    lastEvent           \* history: the handler, continuation or user step that ran last

vars == <<isDragging, isProcessing, currentStage, compressionResult, selectedFile,
          timers, requests, downloads, chooserOpen, toast, lastEvent>>

\* The WorkflowState of the specification: the four fields a run works on.
workflow == <<selectedFile, compressionResult, currentStage, isProcessing>>

\* Everything that is in flight: stage timers, compress and download requests.
inflight == <<timers, requests, downloads>>

----------------------------------------------------------------------------
(* Bounds of the model *)

\* processFile invocations in flight at the same time
MaxRuns == 2

\* download requests pending at the same time
MaxDownloads == 1

\* files carried by one drop or one file-input change
MaxFiles == 2

----------------------------------------------------------------------------
(* Constants of the program *)

\* const maxSize = 10 * 1024 * 1024
maxSize == 10 * 1024 * 1024

\* for (let i = 1; i <= 5; i++)
lastStage == 5

null == <<>>

\* Candidate files: sizes on both sides of the limit, the limit itself and 0.
Candidates ==
    { [name |-> "a.txt", size |-> 0],
      [name |-> "b.bin", size |-> 10485760],
      [name |-> "c.iso", size |-> 10485761],
      [name |-> "d.mov", size |-> 15728640] }

\* The file that fills a FileList behind its first entry
Further == [name |-> "d.mov", size |-> 15728640]

\* e.dataTransfer.files / e.target.files: a FileList, possibly empty.  The
\* handlers read files.length and files[0] only, so the lists differ in their
\* length and their first file.
FileLists ==
    {<<>>} \cup
    { [k \in 1..n |-> IF k = 1 THEN f ELSE Further] : f \in Candidates, n \in 1..MaxFiles }

\* The file_id values the remote service may answer with.
FileIds == {"abc", "xyz"}

\* response.data of POST /compress for an uploaded file
ResponseData(file) ==
    { [file_id |-> id, original_name |-> file.name] : id \in FileIds }

----------------------------------------------------------------------------
(* Initial state: the values given to useState, nothing in flight *)

Init ==
    /\ isDragging = FALSE
    /\ isProcessing = FALSE
    /\ currentStage = 0
    /\ compressionResult = null
    /\ selectedFile = null
    /\ timers = <<>>
    /\ requests = <<>>
    /\ downloads = [id \in FileIds |-> 0]
    /\ chooserOpen = FALSE
    /\ toast = "none"
    /\ lastEvent = "mount"

----------------------------------------------------------------------------
(* Drag feedback *)

handleDragOver ==
    /\ isDragging' = TRUE
    /\ toast' = "none"
    /\ lastEvent' = "handleDragOver"
    /\ UNCHANGED <<workflow, inflight, chooserOpen>>

handleDragLeave ==
    /\ isDragging' = FALSE
    /\ toast' = "none"
    /\ lastEvent' = "handleDragLeave"
    /\ UNCHANGED <<workflow, inflight, chooserOpen>>

----------------------------------------------------------------------------
(* processFile, up to its first await *)

\* processFile invocations that have not finished
InFlight == Len(timers) + Len(requests)

\* Variant: the upload is posted when the run starts, next to the stage loop.
processFileConcurrent(file) ==
    /\ InFlight < MaxRuns
    /\ isProcessing' = TRUE
    /\ currentStage' = 1
    /\ timers' = Append(timers, [file |-> file, i |-> 1])
    /\ requests' = Append(requests, file)

\* setIsProcessing(true); i = 1; setCurrentStage(1); await setTimeout(800):
\* the axios.post of line 113 is not reached before the loop ends.
processFile(file) ==
    /\ InFlight < MaxRuns
    /\ isProcessing' = TRUE
    /\ currentStage' = 1
    /\ timers' = Append(timers, [file |-> file, i |-> 1])
    /\ UNCHANGED requests

----------------------------------------------------------------------------
(* handleFileSelect *)

\* Variant: the limit taken one byte too high.
TooLargeOffByOne(file) == file.size > maxSize + 1

\* Variant: a file of exactly maxSize bytes refused.
TooLargeInclusive(file) == file.size >= maxSize

\* if (file.size > maxSize)
TooLarge(file) == file.size > maxSize

\* Runs synchronously into processFile: the setCurrentStage(0) of line 95 is
\* overwritten by processFile's setCurrentStage(1) before React renders.
handleFileSelect(file) ==
    IF TooLarge(file)
    THEN /\ toast' = "File size exceeds 10MB limit"
         /\ UNCHANGED <<workflow, inflight>>
    ELSE /\ selectedFile' = <<file>>
         /\ compressionResult' = null
         /\ processFile(file)
         /\ toast' = "none"
         /\ UNCHANGED downloads

handleDrop(files) ==
    /\ isDragging' = FALSE
    /\ lastEvent' = "handleDrop"
    /\ UNCHANGED chooserOpen
    /\ IF Len(files) > 0
       THEN handleFileSelect(files[1])
       ELSE toast' = "none" /\ UNCHANGED <<workflow, inflight>>

\* disabled={isProcessing || !!compressionResult}
InputDisabled == isProcessing \/ compressionResult # null

\* onClick={() => !isProcessing && !compressionResult && fileInputRef.current?.click()}
\* The handler opens the chooser and returns; the guard is read here only.
\* With the guard false the handler does nothing.
ClickZone ==
    /\ chooserOpen' = IF ~isProcessing /\ compressionResult = null
                      THEN TRUE
                      ELSE chooserOpen
    /\ toast' = "none"
    /\ lastEvent' = "ClickZone"
    /\ UNCHANGED <<isDragging, workflow, inflight>>

\* The chooser is closed without a change event: the user cancels, or the
\* browser does not deliver the event to an input disabled meanwhile.  No
\* handler of the component runs.
CancelChooser ==
    /\ chooserOpen
    /\ chooserOpen' = FALSE
    /\ toast' = "none"
    /\ lastEvent' = "CancelChooser"
    /\ UNCHANGED <<isDragging, workflow, inflight>>

\* onChange={handleFileInputChange}: reads neither isProcessing nor
\* compressionResult.
handleFileInputChange(files) ==
    /\ lastEvent' = "handleFileInputChange"
    /\ UNCHANGED isDragging
    /\ IF Len(files) > 0
       THEN handleFileSelect(files[1])
       ELSE toast' = "none" /\ UNCHANGED <<workflow, inflight>>

\* The browse path, second task: the user answers the chooser and the change
\* event is delivered, in whatever state the component is by then.
Browse(files) ==
    /\ chooserOpen
    /\ chooserOpen' = FALSE
    /\ handleFileInputChange(files)

----------------------------------------------------------------------------
(* processFile, after each await *)

\* The sequence s without its k-th element
Remove(s, k) == SubSeq(s, 1, k - 1) \o SubSeq(s, k + 1, Len(s))

\* The oldest setTimeout fires: its processFile goes on with i + 1, or, after
\* the fifth wait, leaves the loop and posts the file.
StageTimerFires ==
    /\ timers # <<>>
    /\ LET run == Head(timers) IN
       IF run.i < lastStage
       THEN /\ currentStage' = run.i + 1
            /\ timers' = Append(Tail(timers), [run EXCEPT !.i = @ + 1])
            /\ UNCHANGED requests
       ELSE /\ requests' = Append(requests, run.file)
            /\ timers' = Tail(timers)
            /\ UNCHANGED currentStage
    /\ toast' = "none"
    /\ lastEvent' = "timer"
    /\ UNCHANGED <<isDragging, isProcessing, compressionResult, selectedFile,
                   downloads, chooserOpen>>

\* Variant: the success path also forces the stage to the last one.
CompressSucceedsSetsStage(k, data) ==
    /\ k \in 1..Len(requests)
    /\ compressionResult' = <<data>>
    /\ isProcessing' = FALSE
    /\ currentStage' = lastStage
    /\ requests' = Remove(requests, k)
    /\ toast' = "File compressed successfully!"
    /\ lastEvent' = "compressOk"
    /\ UNCHANGED <<isDragging, selectedFile, timers, downloads, chooserOpen>>

\* await axios.post resolves: setCompressionResult(response.data); finally
CompressSucceeds(k, data) ==
    /\ k \in 1..Len(requests)
    /\ compressionResult' = <<data>>
    /\ isProcessing' = FALSE
    /\ requests' = Remove(requests, k)
    /\ toast' = "File compressed successfully!"
    /\ lastEvent' = "compressOk"
    /\ UNCHANGED <<isDragging, currentStage, selectedFile, timers, downloads,
                   chooserOpen>>

\* await axios.post rejects: catch { setCurrentStage(0) } finally
CompressFails(k) ==
    /\ k \in 1..Len(requests)
    /\ currentStage' = 0
    /\ isProcessing' = FALSE
    /\ requests' = Remove(requests, k)
    /\ toast' = "Failed to compress file. Please try again."
    /\ lastEvent' = "compressFailed"
    /\ UNCHANGED <<isDragging, compressionResult, selectedFile, timers, downloads,
                   chooserOpen>>

CompressResolves ==
    \E k \in 1..Len(requests) :
        \/ \E data \in ResponseData(requests[k]) : CompressSucceeds(k, data)
        \/ CompressFails(k)

----------------------------------------------------------------------------
(* handleDownload *)

PendingDownloads == downloads["abc"] + downloads["xyz"]

\* Variant: no early return; without a result the request goes out for "abc".
handleDownloadUnguarded ==
    /\ lastEvent' = "handleDownload"
    /\ toast' = "none"
    /\ PendingDownloads < MaxDownloads
    /\ LET id == IF compressionResult = null THEN "abc" ELSE compressionResult[1].file_id
       IN  downloads' = [downloads EXCEPT ![id] = @ + 1]
    /\ UNCHANGED <<isDragging, workflow, timers, requests, chooserOpen>>

\* if (!compressionResult) return; axios.get(`${API}/download/${file_id}`)
handleDownload ==
    /\ lastEvent' = "handleDownload"
    /\ toast' = "none"
    /\ IF compressionResult = null
       THEN UNCHANGED downloads
       ELSE /\ PendingDownloads < MaxDownloads
            /\ downloads' = [downloads EXCEPT ![compressionResult[1].file_id] = @ + 1]
    /\ UNCHANGED <<isDragging, workflow, timers, requests, chooserOpen>>

\* await axios.get resolves: the blob is saved through a temporary link
DownloadSucceeds(id) ==
    /\ downloads[id] > 0
    /\ downloads' = [downloads EXCEPT ![id] = @ - 1]
    /\ toast' = "File downloaded successfully!"
    /\ lastEvent' = "downloadOk"
    /\ UNCHANGED <<isDragging, workflow, timers, requests, chooserOpen>>

\* Variant: a failed download drops the result.
DownloadFailsClearsResult(id) ==
    /\ downloads[id] > 0
    /\ downloads' = [downloads EXCEPT ![id] = @ - 1]
    /\ compressionResult' = null
    /\ toast' = "Failed to download file. Please try again."
    /\ lastEvent' = "downloadFailed"
    /\ UNCHANGED <<isDragging, selectedFile, currentStage, isProcessing, timers,
                   requests, chooserOpen>>

\* await axios.get rejects: catch { toast.error(...) }
DownloadFails(id) ==
    /\ downloads[id] > 0
    /\ downloads' = [downloads EXCEPT ![id] = @ - 1]
    /\ toast' = "Failed to download file. Please try again."
    /\ lastEvent' = "downloadFailed"
    /\ UNCHANGED <<isDragging, workflow, timers, requests, chooserOpen>>

DownloadResolves == \E id \in FileIds : DownloadSucceeds(id) \/ DownloadFails(id)

----------------------------------------------------------------------------
(* resetUpload *)

\* Variant: setIsProcessing(false) left out.
resetUploadKeepsProcessing ==
    /\ selectedFile' = null
    /\ compressionResult' = null
    /\ currentStage' = 0
    /\ toast' = "none"
    /\ lastEvent' = "resetUpload"
    /\ UNCHANGED <<isProcessing, isDragging, inflight, chooserOpen>>

\* The value of the file input, which resetUpload also clears (lines 170-172),
\* is state of the DOM element that no handler reads.
resetUpload ==
    /\ selectedFile' = null
    /\ compressionResult' = null
    /\ currentStage' = 0
    /\ isProcessing' = FALSE
    /\ toast' = "none"
    /\ lastEvent' = "resetUpload"
    /\ UNCHANGED <<isDragging, inflight, chooserOpen>>

\* {compressionResult && ( ... download-button, reset-button ... )}
ButtonsRendered == compressionResult # null

ClickDownload == ButtonsRendered /\ handleDownload

ClickReset == ButtonsRendered /\ resetUpload

----------------------------------------------------------------------------
(* The component as the user can drive it *)

Next ==
    \/ handleDragOver
    \/ handleDragLeave
    \/ \E files \in FileLists : handleDrop(files)
    \/ ClickZone
    \/ CancelChooser
    \/ \E files \in FileLists : Browse(files)
    \/ StageTimerFires
    \/ CompressResolves
    \/ ClickDownload
    \/ DownloadResolves
    \/ ClickReset

Spec == Init /\ [][Next]_vars

(* The operations called in any state, as the contracts of download() and  *)
(* reset() are stated: the buttons' rendering condition is left out.       *)

NextOps ==
    \/ Next
    \/ handleDownload
    \/ resetUpload

SpecOps == Init /\ [][NextOps]_vars

(* The component with its scheduling: a timer that is set fires, and a     *)
(* compress request that is pending is answered or fails.  Nothing is      *)
(* assumed of the user.                                                    *)

SpecFair ==
    /\ Spec
    /\ WF_vars(StageTimerFires)
    /\ WF_vars(CompressResolves)

----------------------------------------------------------------------------
(* Vocabulary of the claims *)

TooLargeMessage == "File size exceeds 10MB limit"

\* A user selection through either entry path
SelectEvents == {"handleDrop", "handleFileInputChange"}

\* The step is handleFileSelect(files[1]) through either entry path: a drop,
\* or the change event of the file input.
Selects(files) == Len(files) > 0 /\ (handleDrop(files) \/ Browse(files))

\* The states of the workflow's state machine
Idle == ~isProcessing /\ compressionResult = null /\ currentStage = 0

Complete == compressionResult # null

----------------------------------------------------------------------------
(* C1 *)

\* C1: in every reachable state, a CompressionResult is present only if
\* isProcessing is false and currentStage is 5.
C1_ResultOnlyWhenDone ==
    compressionResult # null => (~isProcessing /\ currentStage = 5)

----------------------------------------------------------------------------
(* C2 *)

\* C2: a selection of a file larger than 10,485,760 bytes, in any state,
\* emits the too-large notification and leaves selectedFile, compressionResult,
\* currentStage and isProcessing as they were, sets no timer and posts nothing.
C2_TooLargeRejected ==
    [][\A files \in FileLists :
          (Selects(files) /\ files[1].size > 10485760)
              => (toast' = TooLargeMessage /\ UNCHANGED <<workflow, inflight>>)]_vars

\* A too-large file was refused while a run was in flight.
C2_Witness ==
    /\ lastEvent = "handleDrop"
    /\ toast = TooLargeMessage
    /\ isProcessing
    /\ timers # <<>>

----------------------------------------------------------------------------
(* C3 *)

\* C3: a selection of a file of at most 10,485,760 bytes makes it the selected
\* file, clears the result and starts processing in the same step: isProcessing
\* is true, the stage is 1 and the run waits on its first stage timer, with no
\* compress request posted yet.
C3_AcceptedStartsRun ==
    [][\A files \in FileLists :
          (Selects(files) /\ files[1].size <= 10485760)
              => /\ selectedFile' = <<files[1]>>
                 /\ compressionResult' = null
                 /\ isProcessing' = TRUE
                 /\ currentStage' = 1
                 /\ timers' = Append(timers, [file |-> files[1], i |-> 1])
                 /\ toast' = "none"
                 /\ UNCHANGED <<requests, downloads>>]_vars

\* A file of exactly 10,485,760 bytes was dropped and accepted after an
\* earlier result had been downloaded: the result is gone, the run has begun.
C3_Witness ==
    /\ lastEvent = "handleDrop"
    /\ selectedFile # null
    /\ selectedFile[1].size = 10485760
    /\ compressionResult = null
    /\ isProcessing
    /\ currentStage = 1
    /\ PendingDownloads > 0

----------------------------------------------------------------------------
(* C4 *)

\* C4: while a run is in flight and its compress call has not failed, every
\* step leaves currentStage as it is or raises it by exactly 1, whatever the
\* user does meanwhile.
C4_StageMonotonic ==
    [][(InFlight > 0 /\ lastEvent' # "compressFailed")
          => currentStage' \in {currentStage, currentStage + 1}]_vars

----------------------------------------------------------------------------
(* C5 *)

\* C5: a failed compress call leaves the stage at 0, no result, isProcessing
\* false and the file selected, and from then on the stage stays 0 until the
\* user selects again.
C5_FailureEndsAtZero ==
    /\ [](lastEvent = "compressFailed"
            => /\ currentStage = 0
               /\ compressionResult = null
               /\ ~isProcessing
               /\ selectedFile # null)
    /\ [][(Idle /\ selectedFile # null /\ lastEvent' \notin SelectEvents)
            => currentStage' = 0]_vars

----------------------------------------------------------------------------
(* C6 *)

\* C6: the compress request is dispatched when the workflow
\* starts, by the step that accepts the file.
C6_DispatchedAtStart ==
    [][\A files \in FileLists :
          (Selects(files) /\ files[1].size <= 10485760)
              => requests' = Append(requests, files[1])]_vars

\* What the code does instead of C6: a compress request is dispatched only by
\* the continuation after a run's fifth stage wait; the step that accepts a
\* file posts nothing.
C6_DispatchedAfterStages ==
    [][requests' # requests /\ Len(requests') > Len(requests)
          => /\ lastEvent' = "timer"
             /\ timers # <<>>
             /\ Head(timers).i = lastStage
             /\ timers' = Tail(timers)
             /\ requests' = Append(requests, Head(timers).file)]_vars

\* A run has left its stage loop at stage 5 and its request is pending.
C6_Witness ==
    /\ lastEvent = "timer"
    /\ requests # <<>>
    /\ timers = <<>>
    /\ currentStage = 5

----------------------------------------------------------------------------
(* C7 *)

\* C7: at most one processing run (stage loop or compress call) is in flight.
C7_OneRunInFlight == InFlight <= 1

----------------------------------------------------------------------------
(* C8 *)

\* C8: after resetUpload, called in any state, there is no selected file, no
\* result, the stage is 0 and isProcessing is false; a second resetUpload
\* right after the first changes nothing.
C8_ResetYieldsIdle ==
    /\ [](lastEvent = "resetUpload"
            => /\ selectedFile = null
               /\ compressionResult = null
               /\ currentStage = 0
               /\ ~isProcessing)
    /\ [][(lastEvent = "resetUpload" /\ lastEvent' = "resetUpload")
            => UNCHANGED vars]_vars

\* resetUpload was called while a run was in flight.
C8_Witness ==
    /\ lastEvent = "resetUpload"
    /\ selectedFile = null
    /\ InFlight > 0

----------------------------------------------------------------------------
(* C9 *)

\* C9: in IDLE and in COMPLETE, only a user selection or a reset changes
\* selectedFile, compressionResult, currentStage or isProcessing.
C9_IdleCompleteStable ==
    [][((Idle \/ Complete) /\ lastEvent' \notin SelectEvents \cup {"resetUpload"})
          => UNCHANGED workflow]_vars

----------------------------------------------------------------------------
(* C10 *)

\* C10: handleDownload without a result changes nothing and sends nothing; a
\* download request goes out only from handleDownload with a result present,
\* for that result's file_id.
C10_DownloadNeedsResult ==
    /\ [][(lastEvent' = "handleDownload" /\ compressionResult = null)
            => (toast' = "none" /\ UNCHANGED <<isDragging, workflow, inflight>>)]_vars
    /\ [][\A id \in FileIds :
            downloads'[id] > downloads[id]
                => /\ lastEvent' = "handleDownload"
                   /\ compressionResult # null
                   /\ compressionResult[1].file_id = id
                   /\ downloads' = [downloads EXCEPT ![id] = @ + 1]]_vars

\* handleDownload was called without a result, while an earlier download
\* request was still pending: nothing was added.
C10_Witness ==
    /\ lastEvent = "handleDownload"
    /\ compressionResult = null
    /\ PendingDownloads = 1

----------------------------------------------------------------------------
(* C11 *)

DownloadEvents == {"handleDownload", "downloadOk", "downloadFailed"}

\* C11: a download, from the click to its success or its failure, leaves
\* selectedFile, compressionResult, currentStage and isProcessing unchanged,
\* and sets no timer and posts no file.
C11_DownloadKeepsWorkflow ==
    [][lastEvent' \in DownloadEvents => UNCHANGED <<workflow, timers, requests>>]_vars

\* A download has failed and the result is still there, in COMPLETE.
C11_Witness ==
    /\ lastEvent = "downloadFailed"
    /\ toast = "Failed to download file. Please try again."
    /\ compressionResult # null
    /\ ~isProcessing
    /\ currentStage = lastStage

----------------------------------------------------------------------------
(* C12 *)

\* C12: when a compress call succeeds, the result becomes the data returned
\* for the file of that request, isProcessing becomes false, and currentStage,
\* selectedFile, the timers and the other requests are left as they were.
C12_SuccessStoresResult ==
    [][lastEvent' = "compressOk"
          => /\ \E k \in 1..Len(requests) :
                   /\ requests' = Remove(requests, k)
                   /\ compressionResult' \in { <<d>> : d \in ResponseData(requests[k]) }
             /\ isProcessing' = FALSE
             /\ toast' = "File compressed successfully!"
             /\ UNCHANGED <<currentStage, selectedFile, timers, downloads>>]_vars

\* A compress call has succeeded while the stage was not 5: the result is
\* stored and the stage is left where it was.
C12_Witness ==
    /\ lastEvent = "compressOk"
    /\ compressionResult # null
    /\ ~isProcessing
    /\ currentStage \notin {0, lastStage}

----------------------------------------------------------------------------
(* C13 *)

\* A click on the zone that opens the chooser
OpensChooser == ClickZone /\ ~chooserOpen /\ chooserOpen'

\* C13: in every state, a file list offered by drop is handled exactly when
\* the same list can be offered by browse, through a chooser that is open or
\* that a click opens: no state lets one path select and not the other.
C13_PathsAgree ==
    \A files \in FileLists :
        (ENABLED handleDrop(files)) <=> (ENABLED Browse(files) \/ ENABLED OpensChooser)

----------------------------------------------------------------------------
(* C14 *)

\* Every run posts once: an accepted selection starts one run and posts
\* nothing itself, a refused or empty one starts nothing, and a request is
\* added only as one run leaves its stage loop.
OneRequestPerRun ==
    /\ \A files \in FileLists :
          (Selects(files) /\ files[1].size <= 10485760)
              => (Len(timers') = Len(timers) + 1 /\ requests' = requests)
    /\ \A files \in FileLists :
          (Selects(files) /\ files[1].size > 10485760)
              => UNCHANGED <<timers, requests>>
    /\ Len(requests') > Len(requests)
          => (Len(requests') = Len(requests) + 1 /\ Len(timers') = Len(timers) - 1)
    /\ Len(timers') < Len(timers)
          => (Len(timers') = Len(timers) - 1 /\ Len(requests') = Len(requests) + 1)

\* A failed compress call is not sent again.
FailedCompressNotResent ==
    lastEvent' = "compressFailed"
        => (Len(requests') = Len(requests) - 1 /\ timers' = timers)

\* In the idle state a failure leaves behind, no compress request goes out
\* until the user selects again.
NoRequestWithoutSelection ==
    (Idle /\ lastEvent' \notin SelectEvents) => Len(requests') <= Len(requests)

\* A click on download with a result sends one request; a failed download is
\* not sent again.
OneRequestPerDownload ==
    /\ (lastEvent' = "handleDownload" /\ compressionResult # null)
          => PendingDownloads' = PendingDownloads + 1
    /\ lastEvent' \in {"downloadOk", "downloadFailed"}
          => PendingDownloads' = PendingDownloads - 1
    /\ PendingDownloads' > PendingDownloads => lastEvent' = "handleDownload"

\* C14: there is no automatic retry: one compress request per accepted
\* selection, none for a refused one, none after a failure until the user
\* selects again, and one download request per download call with a result.
C14_NoAutomaticRetry ==
    [][/\ OneRequestPerRun
       /\ FailedCompressNotResent
       /\ NoRequestWithoutSelection
       /\ OneRequestPerDownload]_vars

----------------------------------------------------------------------------
(* C15 *)

\* No run is in flight and the workflow is COMPLETE or IDLE.
Settled == InFlight = 0 /\ ~isProcessing /\ (Complete \/ Idle)

\* C15: whenever a run is in flight, the workflow later reaches a state with
\* no run in flight and isProcessing false, which is COMPLETE or IDLE.
C15_RunningIsTransient == (InFlight > 0) ~> Settled

----------------------------------------------------------------------------
(* C16 *)

\* C16: whenever a result is present, a file is selected and the result is
\* the answer for that file (the service echoes the uploaded file's name).
C16_ResultOfSelectedFile ==
    compressionResult # null
        => /\ selectedFile # null
           /\ compressionResult[1].original_name = selectedFile[1].name

----------------------------------------------------------------------------
(* C17 *)

\* C17: isProcessing is true in every state in which a run is in flight, in
\* its stage loop or waiting for its compress response.
C17_ProcessingWhileInFlight == InFlight > 0 => isProcessing

----------------------------------------------------------------------------
(* C18 *)

\* C18: currentStage is an integer from 0 to 5, and while no file is selected
\* it is 0 and isProcessing is false.
C18_StageRange ==
    /\ currentStage \in 0..5
    /\ selectedFile = null => (currentStage = 0 /\ ~isProcessing)

====
